---- MODULE Spec2Model ----
(***************************************************************************)
(* The submission panel of jira_submitter: the panel launcher and the      *)
(* watcher thread (Creator.py), the dialog's completion and cancel paths   *)
(* (HouJiraReportDialog.py) and the close operation (HipFileUtils.py).     *)
(* Four smaller machines follow the same sources: save_hip                 *)
(* (SpecSaveHip), the shelf-tool node names (SpecShelf), the automatic     *)
(* description (SpecAutoInfo) and the scan of the watcher files            *)
(* (SpecWatcherScan).                                                      *)
(*                                                                         *)
(* Strings are sequences of one-character strings, so that formatting and  *)
(* str.endswith are computed as Python computes them.                      *)
(***************************************************************************)
EXTENDS Integers, Sequences, FiniteSets, TLC

VARIABLES
    tmpFiles,     \* names of the files in the temporary directory
    cwd,          \* the process's working directory: "tmp" or "other"
    tempdir,      \* the module global tempfile.tempdir: "None" or "tmp"
    hipBasename,  \* hou.hipFile.basename()
    openTmp,      \* NamedTemporaryFile objects nobody references, not yet finalized
    pane,         \* the host's pane tabs: "none", "open" or "closed"
    paneName,     \* pane_tab.name()
    dlg,          \* the dialogs: "none", "open", "rejected", "submitted", "gone"
    issue,        \* self.issue of each dialog: "None" or "issue"
    wpc,          \* position of each wait_jira_submit thread
    sleep_time,   \* its local sleep_time
    wpane,        \* its local _pane_tab (a pane handle or NoPane)
    wqueue,       \* its queue argument
    wfile,        \* the _file its directory scan stopped at
    wexit,        \* how it left the poll loop: "found", "gone" or "declined"
    wexc,         \* the exception that ended the thread, "" if none
    cpc,          \* position of the thread HouJiraReportDialog.reject spawns
    cpane,        \* the pane handle that thread was given
    closeCalls,   \* history: every call of pane_tab.close()
    promptCount,  \* history: timeout prompts each watcher has shown
    yesCount,     \* history: timeout prompts each watcher's user answered with Yes
    markerBy,     \* history: <<file, panel>> for each marker a dialog created
    is_ui,        \* self._is_ui: the session has a user interface
    env,          \* the names set in os.environ
    draft,        \* title and comment of each dialog's ticket
    message,      \* text of the last hou.ui.displayMessage of each dialog, "" if none
    cexc,         \* exception that escaped the last call made on each dialog
    jiraLog,      \* what that last call asked of the ticketing client, in order
    transfer,     \* replication in that last call: "none", "ok" or "failed"
    createCalls,  \* history: the drafts _ticket_creator.create was called with
    hip,          \* save_hip: the session's document name and the call's locals
    shelf,        \* a right click on a shelf tool: kwargs, temp node, ticket item
    ainfo,        \* a HoudiniTicket under construction: _auto_info and description
    wscan         \* _search_for_watchers: the lines read and _all_issues_watchers

vars == <<tmpFiles, cwd, tempdir, hipBasename, openTmp, pane, paneName, dlg, issue,
          wpc, sleep_time, wpane, wqueue, wfile, wexit, wexc, cpc, cpane,
          closeCalls, promptCount, yesCount, markerBy,
          is_ui, env, draft, message, cexc, jiraLog, transfer, createCalls,
          hip, shelf, ainfo, wscan>>

fsVars == <<tmpFiles, cwd, tempdir, hipBasename, openTmp, markerBy>>
dlgVars == <<dlg, issue>>
watcherVars == <<wpc, sleep_time, wpane, wqueue, wfile, wexit, wexc, promptCount,
                 yesCount>>
cancelVars == <<cpc, cpane>>
toolVars == <<hip, shelf, ainfo, wscan>>
ticketVars == <<is_ui, env, draft, message, cexc, jiraLog, transfer, createCalls,
                toolVars>>

-----------------------------------------------------------------------------
(* Bounds *)

\* DN_JIRA_SUBMIT_PANE_SLEEP_MAX is 7200.0 seconds in the source; the model runs
\* the same comparisons against a ceiling scaled down to a few poll intervals.
SleepMaxScaled == 6

\* How many timeout prompts a user answers with "Yes" before giving up.
MaxPrompts == 2

\* Files present in the temporary directory when a watcher is started directly.
MaxFiles == 2

\* Lines in the watchers files of one session.
MaxLines == 2

\* How many times a python-shell user submits one dialog.
MaxSubmits == 2

Panels == {1, 2}
NoPane == 0

-----------------------------------------------------------------------------
(* Program constants *)

DN_JIRA_SUBMIT_PANE_SLEEP_INC == 2

JiraSubmitter == <<"J", "i", "r", "a", "S", "u", "b", "m", "i", "t", "t", "e", "r">>

TmpFileTag ==
    <<"_", "h", "o", "u", "_", "j", "i", "r", "a", "_", "s", "u", "b", "m", "i", "t",
      "_", "p", "a", "n", "e", "_", "t", "a", "b", "_">>

DN_TICKET_TITLE_MESSAGE == "< ISSUE SUMMARY REQUIRED >"

DN_TICKET_DESCRIPTION_MESSAGE ==
    "< ISSUE DESCRIPTION REQUIRED - ** KNOWN BUG w RMB menu (dont use), USE Ctl-C Ctl-V INSTEAD ** >"

\* DN_TRANSFER_MAP, each value as .split(',') returns it
DN_TRANSFER_MAP ==
    [vancouver |-> <<"london", "">>,
     mumbai |-> <<"london", "vancouver">>,
     london |-> <<"vancouver", "">>]

DN_REMOTE_HOST_MAP ==
    [london |-> "nomachine2", vancouver |-> "vannomachine2", mumbai |-> "mumnomachine2"]

\* The environment variables HoudiniTicket reads without a default.
RequiredEnv == {"HOUDINI_MAJOR_RELEASE", "SHOW", "USER"}

-----------------------------------------------------------------------------
(* Inputs *)

\* Pane tab names and document basenames a caller may use.
PaneNames == { <<"P">>, <<"P", "_", "a">> }
DocNames == { <<"b">>, <<"a", "_", "b">> }

\* The random prefixes tempfile gives its files.
Prefixes == { <<"t", "1">>, <<"t", "2">> }

\* Queue.Queue is the class object launch_jira_submit_panel and reject pass.
QueueArgs == {"Queue.Queue", "None"}

Titles == {"", DN_TICKET_TITLE_MESSAGE, "title"}
Comments == {"", DN_TICKET_DESCRIPTION_MESSAGE, "comment"}

\* dnsitedata.local_site().name
Sites == {"vancouver", "mumbai", "london", "montreal"}

\* What one run of rsync_hip_file meets: whether subprocess.Popen could start
\* ssh, whether the copy reached the remote site, and whether hou.hscript
\* returned any output as ret[0].
RsyncOutcomes == {"synced", "synced_output", "failed_quiet", "failed_output", "no_ssh"}

\* What create_issue meets at the ticketing backend.
CreateOutcomes == {"connect_fails", "create_fails", "None", "issue"}

-----------------------------------------------------------------------------
(* Pure functions *)

\* str.endswith
EndsWith(s, t) ==
    /\ Len(s) >= Len(t)
    /\ SubSeq(s, Len(s) - Len(t) + 1, Len(s)) = t

\* "_hou_jira_submit_pane_tab_{0}_{1}".format(pane_tab_name, hou.hipFile.basename())
TmpFileSuffix(name, base) == TmpFileTag \o name \o <<"_">> \o base

\* the name tempfile.NamedTemporaryFile(suffix=...) gives its file
MarkerName(prefix, name, base) == prefix \o TmpFileSuffix(name, base)

\* the files of os.listdir the scan of find_and_remove_tmp_file stops at
MatchingFiles(name, base) ==
    {f \in tmpFiles : EndsWith(f, TmpFileSuffix(name, base))}

\* os.remove(_file): _file is the bare name os.listdir returned, so it is resolved
\* against the working directory. No file of the model lives in another directory.
OsRemoveSucceeds(f) == cwd = "tmp" /\ f \in tmpFiles

\* hou.ui.findPaneTab(name): a pane tab with that name, None if there is none
FindPaneTab(name) ==
    LET S == {q \in Panels : pane[q] = "open" /\ paneName[q] = name}
    IN  IF S = {} THEN {NoPane} ELSE S

\* truth value of the watcher's _pane_tab
HandleOk(h) == h # NoPane

\* Faulty variant: a kill_pane_tab that does not test its handle.
HandleAlwaysOk(h) == TRUE

\* Faulty variant: a kill_pane_tab that takes every handle for None.
HandleNeverOk(h) == FALSE

\* "if _pane_tab:" of kill_pane_tab
KillHandleOk(h) == h # NoPane

\* Faulty variant: a loop condition that does not test _pane_tab.
LoopIgnoresPane(h) == TRUE

\* the loop condition "not find_and_remove_tmp_file(name) and _pane_tab",
\* once the scan has returned False
LoopContinues(h) == HandleOk(h)

\* Faulty variant: a kill_pane_tab that does not test its queue.
QueueAlwaysOk(q) == TRUE

\* "if not queue: raise" of kill_pane_tab
QueueOk(q) == q # "None"

\* Faulty variant: the prompt is due as soon as the ceiling is reached.
TimedOutAtCeiling(t) == t >= SleepMaxScaled

\* "if sleep_time > _time_max"
TimedOut(t) == t > SleepMaxScaled

\* Faulty variant: the answer Yes leaves sleep_time as it is.
KeepSleepTime(t) == t

\* "sleep_time = 0.0" after the user answered Yes
ResetSleepTime(t) == 0

\* Faulty variant: the description is looked at before the summary.
ValidationCommentFirst(title, comment) ==
    IF comment = "" \/ comment = DN_TICKET_DESCRIPTION_MESSAGE
    THEN "Please enter a valid issue description"
    ELSE IF title = "" \/ title = DN_TICKET_TITLE_MESSAGE
         THEN "Please enter a valid issue summary"
         ELSE ""

\* Faulty variant: only the summary is looked at.
ValidationTitleOnly(title, comment) ==
    IF title = "" \/ title = DN_TICKET_TITLE_MESSAGE
    THEN "Please enter a valid issue summary"
    ELSE ""

\* the validation of _createTicket: the message shown, "" if the draft is valid
ValidationMessage(title, comment) ==
    IF title = "" \/ title = DN_TICKET_TITLE_MESSAGE
    THEN "Please enter a valid issue summary"
    ELSE IF comment = "" \/ comment = DN_TICKET_DESCRIPTION_MESSAGE
         THEN "Please enter a valid issue description"
         ELSE ""

\* An exception as <<type, text>>; no exception is the empty tuple.
NoException == <<>>
Raise(type, text) == <<type, text>>

\* The ticket before HoudiniTicket has been constructed.
NoDraft == [title |-> "(no ticket)", comment |-> "(no ticket)", prefixes |-> 0]

\* The defaults _create_hou_ticket sets.
NewDraft ==
    [title |-> DN_TICKET_TITLE_MESSAGE, comment |-> DN_TICKET_DESCRIPTION_MESSAGE,
     prefixes |-> 0]

\* self._ticket.title: d.title with "[{reporter}] " prepended d.prefixes times.
\* A prefixed title is neither empty nor the placeholder.
TitleText(d) == IF d.prefixes = 0 THEN d.title ELSE "[reporter] ..."

\* HoudiniTicket.__init__: the exception it raises, in the order of its
\* statements. conn: get_jira_connection succeeds; watchers: the list of
\* watchers is not empty.
HoudiniTicketInit(conn, watchers, e) ==
    IF ~conn
    THEN Raise("TicketCreatorException", "Error: ticket_creator could not get connection")
    ELSE IF "SHOW" \notin e
    THEN \* os.environ["SHOW"] in _search_for_watchers
         Raise("KeyError", "SHOW")
    ELSE IF ~watchers
    THEN Raise("AssertionError", "")
    ELSE IF "HOUDINI_MAJOR_RELEASE" \notin e
    THEN Raise("OperationFailed", "HOUDINI_MAJOR_RELEASE variable not found!")
    ELSE IF "USER" \notin e
    THEN \* _create_hou_ticket
         Raise("OperationFailed", "Missing USER or SHOW environment variable.")
    ELSE NoException

RsyncFailed(o) == o \in {"failed_quiet", "failed_output", "no_ssh"}

\* rsync_hip_file(dest_site, path_to_file): the exception it raises
RsyncHipFile(dest, o, e) ==
    IF dest \notin DOMAIN DN_REMOTE_HOST_MAP
    THEN NoException
    ELSE IF "USER" \notin e
    THEN Raise("KeyError", "USER")
    ELSE IF o = "no_ssh"
    THEN \* subprocess.Popen raises OSError, not CalledProcessError
         Raise("OSError", "ssh")
    ELSE IF o \in {"synced_output", "failed_output"}
    THEN \* "if ret[0]:"
         Raise("OperationFailed", "rsync returned error")
    ELSE NoException

\* The destinations transfer_hip runs rsync_hip_file for.
Destinations(site) ==
    IF site \in DOMAIN DN_TRANSFER_MAP
    THEN SelectSeq(DN_TRANSFER_MAP[site], LAMBDA dest : dest # "")
    ELSE <<>>

\* transfer_hip(new_file_path) at `site`, os[i] being what the i-th rsync meets:
\* <<exception it raises, the rsync runs that have failed>>
RECURSIVE TransferFrom(_, _, _, _)
TransferFrom(dests, os, e, i) ==
    IF i > Len(dests)
    THEN <<NoException, FALSE>>
    ELSE LET x == RsyncHipFile(dests[i], os[i], e)
         IN  IF x # NoException
             THEN <<x, RsyncFailed(os[i])>>
             ELSE LET rest == TransferFrom(dests, os, e, i + 1)
                  IN  <<rest[1], RsyncFailed(os[i]) \/ rest[2]>>

TransferHip(site, os, e) == TransferFrom(Destinations(site), os, e, 1)

\* What the hip copy of _createTicket can come to, as <<exception, replication>>:
\* nothing is replicated unless the copy is asked for, save_hip has saved it and
\* the site has destinations.
HipCopyResults(save, e) ==
    {<<NoException, "none">>} \cup
    (IF save
     THEN {LET t == TransferHip(site, os, e)
           IN  <<t[1], IF t[2] THEN "failed" ELSE "ok">> :
               site \in {x \in Sites : Destinations(x) # <<>>},
               os \in [1..2 -> RsyncOutcomes]}
     ELSE {})

-----------------------------------------------------------------------------
(* HipFileUtils.py: the names save_hip works with.  A path is a record of    *)
(* its directory, a sequence of components, and its file name, a string.     *)

\* '' as a path
NoPath == [dir |-> <<>>, base |-> <<>>]

\* os.path.join(os.sep, os.environ["SHOW"], os.environ["SHOT"], "houdini", "hip",
\*              os.environ["USER"])
ValidBase == <<"SHOW", "SHOT", "houdini", "hip", "USER">>

ShotDir == <<"jobs">> \o ValidBase
HostsDir == <<"hosts", "h", "user_data">> \o ValidBase
OtherDir == <<"tmp">>

DotHip == <<".", "h", "i", "p">>
Untitled == <<"u", "n", "t", "i", "t", "l", "e", "d">>

\* the document names a session may have when save_hip is called
HipNames ==
    {[dir |-> d, base |-> b] :
        d \in {ShotDir, HostsDir, OtherDir},
        b \in {<<"s">> \o DotHip, Untitled \o DotHip}}

\* what hou.ui.selectFile(...).strip() may return, '' when cancelled
SelectedFiles ==
    {NoPath,
     [dir |-> OtherDir, base |-> <<"n">>],
     [dir |-> ShotDir, base |-> <<"n">> \o DotHip]}

\* the time stamp of create_timestamped_hip_path
DateStamp == <<"T">>

\* "t in s" of two sequences
Contains(s, t) ==
    \E i \in 0..(Len(s) - Len(t)) : SubSeq(s, i + 1, i + Len(t)) = t

RECURSIVE LStrip(_, _)
LStrip(s, chars) ==
    IF s # <<>> /\ Head(s) \in chars THEN LStrip(Tail(s), chars) ELSE s

RECURSIVE RStrip(_, _)
RStrip(s, chars) ==
    IF s # <<>> /\ s[Len(s)] \in chars
    THEN RStrip(SubSeq(s, 1, Len(s) - 1), chars)
    ELSE s

\* str.strip(chars)
Strip(s, chars) == RStrip(LStrip(s, chars), chars)

\* "valid_base not in os.path.dirname(valid_path) or
\*  'untitled' in hou.hipFile.basename().strip('.hip')"
NeedsForceSave(path, basename) ==
    \/ ~Contains(path.dir, ValidBase)
    \/ Contains(Strip(basename, {".", "h", "i", "p"}), Untitled)

\* default_jira_hip_name of force_save
DefaultJiraHipName ==
    [dir |-> ShotDir,
     base |-> <<"t", "m", "p", "_", "s", "a", "v", "e", "_", "R">> \o DotHip]

\* os.path.join(os.sep, "u", os.environ["USER"], "tmp_save_for_jira.hip")
HomeJiraHipName ==
    [dir |-> <<"u", "USER">>,
     base |-> <<"t", "m", "p", "_", "s", "a", "v", "e">> \o DotHip]

\* force_save(): the file it saved the session to, or the exception of its last
\* hou.hipFile.save.  response, overwrite: the buttons pressed; sel: the file
\* selected; saved1, saved2: the two calls of hou.hipFile.save succeed.
ForceSave(ui, response, sel, exists, overwrite, writable, saved1, saved2) ==
    LET named == IF sel = NoPath THEN DefaultJiraHipName ELSE sel
        fixed == IF ~Contains(named.base, DotHip)
                 THEN [named EXCEPT !.base = @ \o DotHip]
                 ELSE named
        asked == IF ui /\ response = 0
                 THEN IF exists /\ overwrite # 0 THEN DefaultJiraHipName ELSE fixed
                 ELSE DefaultJiraHipName
        new_file == IF ~writable THEN DefaultJiraHipName ELSE asked
    IN  IF saved1 THEN [path |-> new_file, exc |-> ""]
        ELSE IF saved2 THEN [path |-> HomeJiraHipName, exc |-> ""]
        ELSE [path |-> NoPath, exc |-> "OperationFailed"]

\* every result force_save can come to
ForceSaveResults(ui) ==
    {ForceSave(ui, response, sel, exists, overwrite, writable, saved1, saved2) :
        response \in {0, 1}, sel \in SelectedFiles, exists \in BOOLEAN,
        overwrite \in {0, 1}, writable \in BOOLEAN, saved1 \in BOOLEAN,
        saved2 \in BOOLEAN}

\* re.sub(r"/hosts/\w+/user_data", '/jobs', valid_dir)
RECURSIVE SubHosts(_)
SubHosts(d) ==
    IF d = <<>> THEN <<>>
    ELSE IF Len(d) >= 3 /\ d[1] = "hosts" /\ d[3] = "user_data"
    THEN <<"jobs">> \o SubHosts(SubSeq(d, 4, Len(d)))
    ELSE <<Head(d)>> \o SubHosts(Tail(d))

\* os.path.join(os.sep, os.path.dirname(valid_path), "jira"), then the re.sub
ValidDir(valid_path) == SubHosts(Append(valid_path.dir, "jira"))

\* create_timestamped_hip_path(path), with hou.hipFile.basename() = basename
create_timestamped_hip_path(path, basename) ==
    [dir |-> Append(path.dir, "jira"),
     base |-> Strip(basename, {".", "h", "i", "p"}) \o <<"_">> \o DateStamp \o DotHip]

\* Faulty variant: a save_hip without its finally clause.
KeepSavedName(valid_path, name) == name

\* "finally: hou.hipFile.setName(valid_path)": the document name afterwards
NameAfterSave(valid_path, name) == valid_path

\* "if saved_hip and submission_hip_file" of _createTicket
TransferWanted(saved_hip, submission_hip_file) ==
    saved_hip /\ submission_hip_file # NoPath

-----------------------------------------------------------------------------
(* Creator.py: the names of a shelf tool and its shelf, and the temp node     *)
(* that carries them from tool_menu_handler to create_interface               *)

DN_TMP_NODE_SHELF_PARENT_POSTFIX ==
    <<"h", "o", "u", "_", "j", "i", "r", "a", "_", "s", "u", "b", "m", "i", "t", "_", "s", "h", "e", "l", "f">>

\* None, for a name
NoName == <<>>

\* hou.shelves.tools(): the names of the tools
ToolNames == {<<"t">>, <<"t", "_", "2">>}

\* hou.shelves.shelves(): the names of the shelves
ShelfNames == {<<"s">>, <<"s", "_", "2">>}

\* tool.filePath(): a shelf file, an OTL outside /tools/, a plugin in /tools/
ToolFilePaths ==
    {<<"/", "t", "o", "o", "l", "s", "/", "d", ".", "s", "h", "e", "l", "f">>,
     <<"/", "o", "t", "l", "s", "/", "d", ".", "h", "d", "a">>,
     <<"/", "t", "o", "o", "l", "s", "/", "d", ".", "s", "o">>}

\* the keyword arguments a shelf menu script may pass
KwargsSet ==
    {<<>>}
    \cup {("ownername" :> o) : o \in ToolNames \cup {<<"x">>}}
    \cup {("ownername" :> o) @@ ("ownerparentname" :> q) :
             o \in ToolNames \cup {<<"x">>}, q \in ShelfNames}
    \cup {("ownername" :> o) @@ ("ownerparentname" :> q) @@ ("owner_parent_name" :> q) :
             o \in ToolNames, q \in ShelfNames}
    \cup {("ownername" :> o) @@ ("owner_parent_name" :> q) :
             o \in ToolNames, q \in ShelfNames}

\* \w of a regular expression, for the characters names are written with
IsWordChar(c) == c \notin {"-", "/", ".", ":", " "}

\* the end of the longest run of \w characters of s that starts at i
WordRunEnd(s, i) ==
    CHOOSE j \in i..(Len(s) + 1) :
        /\ \A k \in i..(j - 1) : IsWordChar(s[k])
        /\ j = Len(s) + 1 \/ ~IsWordChar(s[j])

\* r"(?P<node>\w+)-(?P<parent>\w+)-hou_jira_submit_shelf.*$" matches s from i on
ShelfNameMatchAt(s, i) ==
    LET j == WordRunEnd(s, i)
        k == WordRunEnd(s, j + 1)
        n == Len(DN_TMP_NODE_SHELF_PARENT_POSTFIX)
    IN  /\ j > i /\ j <= Len(s) /\ s[j] = "-"
        /\ k > j + 1 /\ k <= Len(s) /\ s[k] = "-"
        /\ Len(s) >= k + n
        /\ SubSeq(s, k + 1, k + n) = DN_TMP_NODE_SHELF_PARENT_POSTFIX

\* line.search(path): the groups node and parent of the leftmost match, <<>> for
\* no match
ShelfNameSearch(s) ==
    LET starts == {i \in 1..Len(s) : ShelfNameMatchAt(s, i)}
    IN  IF starts = {} THEN <<>>
        ELSE LET i == CHOOSE x \in starts : \A y \in starts : x <= y
                 j == WordRunEnd(s, i)
                 k == WordRunEnd(s, j + 1)
             IN  [node |-> SubSeq(s, i, j - 1), parent |-> SubSeq(s, j + 1, k - 1)]

\* "{0}-{1}-{2}".format(owner_name, owner_parent_name, DN_TMP_NODE_SHELF_PARENT_POSTFIX)
TmpNodeName(owner_name, owner_parent_name) ==
    owner_name \o <<"-">> \o owner_parent_name \o <<"-">>
        \o DN_TMP_NODE_SHELF_PARENT_POSTFIX

\* "{0}_FOR_JIRA_SUBMISSION_delete_me".format(owner_name)
OtlNodeName(owner_name) ==
    owner_name \o <<"_", "F", "O", "R", "_", "J", "I", "R", "A", "_", "S", "U", "B", "M", "I", "S", "S", "I", "O", "N", "_", "d", "e", "l", "e", "t", "e", "_", "m", "e">>

\* tmp_node.path() of a node created in /obj
ObjPath(name) == <<"/", "o", "b", "j", "/">> \o name

\* 'kwargs["ownerparentname"] if "owner_parent_name" in kwargs else "NONE"'; the
\* result is <<"KeyError">> when the subscript fails
OwnerParentName(kwargs) ==
    IF "owner_parent_name" \in DOMAIN kwargs
    THEN IF "ownerparentname" \in DOMAIN kwargs
         THEN kwargs["ownerparentname"]
         ELSE <<"KeyError">>
    ELSE <<"N", "O", "N", "E">>

-----------------------------------------------------------------------------
(* HoudiniTicket.py and TicketInfo.py: the automatically generated part of    *)
(* the description.  The description is the sequence of the pieces that the   *)
(* code joins with "\n".                                                      *)

\* the fields of the namedtuple AutoInfo, in the order of _asdict()
AutoInfoFields ==
    <<"location", "shot", "submitteditem", "opdefinitiontype", "opdefinitionpath",
      "orighippath", "houdiniversion", "codeline1", "houdinipath", "curtools",
      "bobpaths", "codeline2">>

\* what a ticket may be opened on: a node of an HDA, a built-in node, a node
\* whose source path cannot be read, a tool with or without its shelf, nothing
TicketItems == {"hda_node", "builtin_node", "opaque_node", "shelf_tool", "tool", "None"}

\* _check_item: self._hou_issue_type
CheckItem(item) ==
    IF item \in {"hda_node", "builtin_node", "opaque_node"} THEN "dneg_node"
    ELSE IF item \in {"shelf_tool", "tool"} THEN "dneg_tool"
    ELSE "generic"

\* TicketInfo.get_location_info; site: dnsitedata.local_site().name is not empty
get_location_info(site) ==
    IF site THEN "LOCATION:   Site \n" ELSE "LOCATION:   Could not find dn_site name\n"

\* TicketInfo.get_shot_info; shot: SHOT is in os.environ
get_shot_info(shot) ==
    IF shot THEN "SHOT submitted from: SHOT\n" ELSE "No SHOT set for this submission\n"

\* TicketInfo.get_item_info(issue_type, item, item_parent)
get_item_info(issue_type, item) ==
    IF issue_type = "dneg_node" THEN "Issue submitted on node: path"
    ELSE IF issue_type = "dneg_tool" /\ item = "shelf_tool"
    THEN "Shelf type: name\nShelf name: label\nShelf path: path"
    ELSE IF issue_type = "dneg_tool" THEN "Tool type: name\nTool label: label\nTool path: path"
    ELSE IF issue_type = "generic" THEN "N/A"
    ELSE ""

\* TicketInfo.get_item_type_info(issue_type, item)
get_item_type_info(issue_type, item) ==
    IF issue_type = "dneg_node" THEN "Operator type: type\n"
    ELSE IF issue_type = "dneg_tool" THEN "Tool type: name\nTool name: label"
    ELSE IF issue_type = "generic" THEN "Generic Houdini"
    ELSE ""

\* TicketInfo.get_item_path_info(issue_type, item)
get_item_path_info(issue_type, item) ==
    IF issue_type = "dneg_node"
    THEN IF item = "hda_node" THEN "Operator definition path: library\n"
         ELSE IF item = "builtin_node" THEN "Operator definition path: source\n"
         ELSE "Could not determine source path of node, perhaps a Houdini built in?"
    ELSE IF issue_type = "dneg_tool" THEN "Tool definition path: path\n"
    ELSE IF issue_type = "generic" THEN "N/A"
    ELSE ""

\* TicketInfo.get_houdini_version_info; app: hou.applicationName()
get_houdini_version_info(app) ==
    IF app = "hescape" THEN "Houdini version info:\n\nEscape license\n"
    ELSE "Houdini version info:\n\nMaster license\n"

\* TicketInfo.get_curtools_info
get_curtools_info == "Current DN HOUDINI Tools versions:\n\n"

\* TicketInfo.get_bob_info; bob: bobhelper.World() and its packages can be read
get_bob_info(bob) == IF bob THEN "BOB Paths and Versions: \n\n" ELSE ""

\* _get_auto_info: the AutoInfo of a ticket
GetAutoInfo(issue_type, item, shot, site, app, bob) ==
    [location |-> get_location_info(site),
     shot |-> get_shot_info(shot),
     submitteditem |-> get_item_info(issue_type, item),
     opdefinitiontype |-> get_item_type_info(issue_type, item),
     opdefinitionpath |-> get_item_path_info(issue_type, item),
     orighippath |-> "Submission HIP location:\nHIP\n\n",
     houdiniversion |-> get_houdini_version_info(app),
     codeline1 |-> "{code:collapse=true|title=Environment Info Below} ",
     houdinipath |-> "HOUDINI_PATH: \n",
     curtools |-> get_curtools_info,
     bobpaths |-> get_bob_info(bob),
     codeline2 |-> "{code}"]

\* "-" * 79
Dashes == "----"

\* the three format calls at the head of _build_final_description, applied to
\* the description d
DescriptionHeader(d) == d \o <<Dashes, "AUTO GENERATED INFO FOLLOWS", Dashes>>

\* Faulty variant: every value is appended, empty or not.
RECURSIVE AppendAllValues(_, _, _)
AppendAllValues(d, info, i) ==
    IF i > Len(AutoInfoFields) THEN d
    ELSE AppendAllValues(Append(d, info[AutoInfoFields[i]]), info, i + 1)

\* "for _, value in self._auto_info._asdict().iteritems(): if value: ..." from
\* the i-th field on
RECURSIVE AppendValues(_, _, _)
AppendValues(d, info, i) ==
    IF i > Len(AutoInfoFields) THEN d
    ELSE LET value == info[AutoInfoFields[i]]
         IN  AppendValues(IF value # "" THEN Append(d, value) ELSE d, info, i + 1)

-----------------------------------------------------------------------------
(* HoudiniTicket._search_for_watchers: the lines of houdiniJiraWatchers.dat.  *)
(* The characters of the model's lines are letters, "-", ":" and " ".         *)

\* [a-zA-Z0-9_-] of the regular expression
IsNameChar(c) == IsWordChar(c) \/ c = "-"

\* \W of the regular expression
IsNonWordChar(c) == ~IsWordChar(c)

\* [a-zA-Z0-9_-]+ : the positions e such that s[st..e-1], for a start st of S,
\* is a non-empty run of name characters
NameRunEnds(s, S) ==
    {e \in 2..(Len(s) + 1) :
        \E st \in S : st < e /\ \A k \in st..(e - 1) : IsNameChar(s[k])}

\* \W+ : the positions e such that s[st..e-1], for a start st of S, is a
\* non-empty run of non-word characters
NonWordRunEnds(s, S) ==
    {e \in 2..(Len(s) + 1) :
        \E st \in S : st < e /\ \A k \in st..(e - 1) : IsNonWordChar(s[k])}

\* the positions e such that s[b..e-1] matches ([a-zA-Z0-9_-]+[:]*)*[a-zA-Z0-9_-]*
SitesEnds(s, b) ==
    {e \in b..(Len(s) + 1) :
        \/ e = b
        \/ /\ IsNameChar(s[b])
           /\ \A k \in b..(e - 1) : IsNameChar(s[k]) \/ s[k] = ":"}

\* \W+(?P<First>...)\W+(?P<Last>...) matches s from position p on
NamesMatch(s, p) ==
    NameRunEnds(s, NonWordRunEnds(s, NameRunEnds(s, NonWordRunEnds(s, {p})))) # {}

Max(S) == CHOOSE x \in S : \A y \in S : y <= x

\* line.search(x): the groups login and sites of the match the backtracking of
\* the greedy quantifiers finds first, <<>> for None
WatcherLineSearch(s) ==
    LET sitesFrom(b) == {c \in SitesEnds(s, b) : NamesMatch(s, c)}
        sepFrom(a) == {b \in NonWordRunEnds(s, {a}) : sitesFrom(b) # {}}
        logins == {a \in NameRunEnds(s, {1}) : sepFrom(a) # {}}
    IN  IF logins = {} THEN <<>>
        ELSE LET a == Max(logins)
                 b == Max(sepFrom(a))
                 c == Max(sitesFrom(b))
             IN  [login |-> SubSeq(s, 1, a - 1), sites |-> SubSeq(s, b, c - 1)]

\* re.split(sep, s) for a separator of one character
RECURSIVE Split(_, _)
Split(s, sep) ==
    IF \A k \in 1..Len(s) : s[k] # sep THEN <<s>>
    ELSE LET i == CHOOSE k \in 1..Len(s) :
                     s[k] = sep /\ \A j \in 1..(k - 1) : s[j] # sep
         IN  <<SubSeq(s, 1, i - 1)>> \o Split(SubSeq(s, i + 1, Len(s)), sep)

\* "x in list"
InList(x, list) == \E k \in 1..Len(list) : list[k] = x

\* Faulty variant: a user without a site list is allowed nowhere.
SiteListed(sites, site_name) == InList(site_name, sites)

\* "if not sites[0] or site_name in sites"
SiteAllowed(sites, site_name) == sites[1] = <<>> \/ InList(site_name, sites)

\* DN_HOUDINI_JIRA_MASTER_LOGIN
MasterLogin == <<"m">>

\* the logins pwd.getpwnam knows
Accounts == {<<"a">>, <<"b">>, MasterLogin}

\* the logins written in watchers files; "z" is no account
Logins == {<<"a">>, <<"b">>, <<"z">>}

\* dnsitedata short names
SiteNames == {<<"l">>, <<"v">>}

\* the site columns written in watchers files: one site, two sites, all sites
SiteColumns == {<<"l">>, <<"v">>, <<"v", ":", "l">>, <<>>}

\* a line "login sites First Last" as the file's documentation has it
WatcherLine(login, sites) ==
    login \o <<" ">> \o sites \o <<" ">> \o <<"F", " ", "L">>

\* the lines a watchers file may hold: lines of the documented form, lines
\* without a last name, lines that start with a blank, empty lines
WatcherLines ==
    {WatcherLine(u, c) : u \in Logins, c \in SiteColumns}
    \cup {<<"a", " ", "l", " ", "F">>,
          <<" ">> \o WatcherLine(<<"a">>, <<"l">>),
          <<>>}

\* sequences over S of length at most n
SeqsUpTo(S, n) == UNION {[1..k -> S] : k \in 0..n}

-----------------------------------------------------------------------------
(* The host *)

\* The host closes a pane tab; the dialog it hosts goes with it.
ClosePane(h) ==
    /\ pane' = [pane EXCEPT ![h] = "closed"]
    /\ dlg' = [dlg EXCEPT ![h] = IF @ \in {"none", "open"} THEN "gone" ELSE @]

\* HipFileUtils.kill_pane_tab(queue, pane_tab), run by `thread` of panel `owner`;
\* exc is the exception it raises, "" if it returns.
KillPaneTab(thread, owner, q, h, why, exc) ==
    IF ~QueueOk(q)
    THEN /\ exc = "OperationFailed"
         /\ UNCHANGED <<pane, dlg, closeCalls>>
    ELSE IF ~KillHandleOk(h)
    THEN /\ exc = ""
         /\ UNCHANGED <<pane, dlg, closeCalls>>
    ELSE /\ closeCalls' = closeCalls \cup
                {[thread |-> thread, owner |-> owner, pane |-> h, why |-> why]}
         /\ IF h \in Panels /\ pane[h] = "open"
            THEN exc = "" /\ ClosePane(h)
            ELSE \* the handle is stale: the host either ignores the call or
                 \* raises hou.ObjectWasDeleted
                 /\ exc \in {"", "ObjectWasDeleted"}
                 /\ UNCHANGED <<pane, dlg>>

-----------------------------------------------------------------------------
(* Initial states *)

Idle ==
    /\ openTmp = {}
    /\ dlg = [p \in Panels |-> "none"]
    /\ issue = [p \in Panels |-> "None"]
    /\ sleep_time = [p \in Panels |-> 0]
    /\ wfile = [p \in Panels |-> <<>>]
    /\ wexit = [p \in Panels |-> "none"]
    /\ wexc = [p \in Panels |-> ""]
    /\ cpc = [p \in Panels |-> "none"]
    /\ cpane = [p \in Panels |-> NoPane]
    /\ closeCalls = {}
    /\ promptCount = [p \in Panels |-> 0]
    /\ yesCount = [p \in Panels |-> 0]
    /\ markerBy = {}
    /\ draft = [p \in Panels |-> NoDraft]
    /\ message = [p \in Panels |-> ""]
    /\ cexc = [p \in Panels |-> NoException]
    /\ jiraLog = [p \in Panels |-> <<>>]
    /\ transfer = [p \in Panels |-> "none"]
    /\ createCalls = {}

\* No call of save_hip is under way.
HipIdle ==
    [pc |-> "idle", shot |-> TRUE, name |-> NoPath, valid_path |-> NoPath,
     valid_dir |-> <<>>, save_file_path |-> NoPath, success |-> TRUE, saved |-> "no",
     exc |-> "", transfer |-> FALSE]

\* No shelf menu event is being handled.
ShelfIdle ==
    [pc |-> "idle", kwargs |-> <<>>, filePath |-> <<>>, node |-> <<>>,
     item |-> <<>>, item_parent |-> <<>>, exc |-> "", message |-> FALSE]

\* No HoudiniTicket is collecting its information.
AutoInfoIdle ==
    [pc |-> "idle", item |-> "None", shot |-> TRUE, site |-> TRUE, app |-> "houdini",
     bob |-> TRUE, issue_type |-> "", auto_info |-> <<>>, description |-> <<>>]

\* No watchers file is being read.
WatcherScanIdle ==
    [pc |-> "idle", lines |-> <<>>, site_name |-> <<>>, idx |-> 0,
     all_issues_watchers |-> <<>>, exc |-> ""]

ToolsIdle ==
    /\ hip = HipIdle
    /\ shelf = ShelfIdle
    /\ ainfo = AutoInfoIdle
    /\ wscan = WatcherScanIdle

\* A session in which no panel has been launched yet.
Init ==
    /\ Idle
    /\ ToolsIdle
    /\ tmpFiles = {}
    /\ cwd \in {"tmp", "other"}
    /\ tempdir \in {"None", "tmp"}
    /\ hipBasename \in DocNames
    /\ is_ui \in BOOLEAN
    /\ env \in SUBSET RequiredEnv
    /\ pane = [p \in Panels |-> "none"]
    /\ paneName = [p \in Panels |-> <<>>]
    /\ wpc = [p \in Panels |-> "idle"]
    /\ wpane = [p \in Panels |-> NoPane]
    /\ wqueue = [p \in Panels |-> "None"]

\* The files a temporary directory may hold when a watcher is started.
CandidateFiles ==
    {MarkerName(x, n, d) : x \in Prefixes, n \in PaneNames, d \in DocNames}
        \cup { <<"x">> }

\* A caller has created pane tab 1 and started wait_jira_submit(queue, pane_tab)
\* on it in a thread of its own.
InitWatcher ==
    /\ Idle
    /\ ToolsIdle
    /\ tmpFiles \in {S \in SUBSET CandidateFiles : Cardinality(S) <= MaxFiles}
    /\ cwd \in {"tmp", "other"}
    /\ tempdir \in {"None", "tmp"}
    /\ hipBasename \in DocNames
    /\ is_ui = TRUE
    /\ env = RequiredEnv
    /\ pane = [p \in Panels |-> IF p = 1 THEN "open" ELSE "none"]
    /\ \E n \in PaneNames : paneName = [p \in Panels |-> IF p = 1 THEN n ELSE <<>>]
    /\ wpc = [p \in Panels |-> IF p = 1 THEN "scan" ELSE "idle"]
    /\ wpane = [p \in Panels |-> IF p = 1 THEN 1 ELSE NoPane]
    /\ \E q \in QueueArgs : wqueue = [p \in Panels |-> IF p = 1 THEN q ELSE "None"]

-----------------------------------------------------------------------------
(* Creator.py *)

\* The thread of wait_jira_submit is over, by a return ("done") or by an
\* exception nothing catches ("failed"); its locals are gone.
ThreadEnds(p, pc, exc) ==
    /\ wpc' = [wpc EXCEPT ![p] = pc]
    /\ wexc' = [wexc EXCEPT ![p] = exc]
    /\ sleep_time' = [sleep_time EXCEPT ![p] = 0]
    /\ wpane' = [wpane EXCEPT ![p] = NoPane]
    /\ wfile' = [wfile EXCEPT ![p] = <<>>]

launch_jira_submit_panel(p) ==
    /\ is_ui
    /\ pane[p] = "none"
    /\ pane' = [pane EXCEPT ![p] = "open"]
    /\ paneName' = [paneName EXCEPT ![p] = JiraSubmitter]
    \* thread.start(): wait_jira_submit(queue, pane_tab) reaches its loop head
    /\ wpc' = [wpc EXCEPT ![p] = "scan"]
    /\ sleep_time' = [sleep_time EXCEPT ![p] = 0]
    /\ wpane' = [wpane EXCEPT ![p] = p]
    /\ wqueue' = [wqueue EXCEPT ![p] = "Queue.Queue"]
    /\ UNCHANGED <<fsVars, dlgVars, wfile, wexit, wexc, promptCount, yesCount,
                   cancelVars, closeCalls>>
    /\ UNCHANGED ticketVars

\* jira_submit = HoudiniTicket(...); dialog = HouJiraReportDialog(**jira_submit.info_for_dialog)
NewDialog(p) ==
    \E conn \in BOOLEAN, watchers \in BOOLEAN :
        LET x == HoudiniTicketInit(conn, watchers, env)
        IN  /\ jiraLog' = [jiraLog EXCEPT ![p] =
                              IF conn THEN <<"connect">> ELSE <<"connect_failed">>]
            /\ cexc' = [cexc EXCEPT ![p] = x]
            /\ IF x = NoException
               THEN /\ dlg' = [dlg EXCEPT ![p] = "open"]
                    /\ draft' = [draft EXCEPT ![p] = NewDraft]
               ELSE \* nothing catches the exception and no dialog is built
                    UNCHANGED <<dlg, draft>>
            /\ UNCHANGED <<is_ui, env, message, transfer, createCalls, toolVars>>

create_interface(p) ==
    /\ is_ui
    /\ pane[p] = "open"
    /\ dlg[p] = "none"
    /\ NewDialog(p)
    /\ UNCHANGED <<fsVars, pane, paneName, issue, watcherVars, cancelVars, closeCalls>>

\* The loop head of wait_jira_submit: find_and_remove_tmp_file up to os.remove,
\* and the rest of the loop condition when the scan returns False.
Scan(p) ==
    /\ wpc[p] = "scan"
    /\ IF tempdir = "None"
       THEN \* os.listdir(None)
            /\ ThreadEnds(p, "failed", "TypeError")
            /\ UNCHANGED wexit
       ELSE \/ \E f \in MatchingFiles(paneName[p], hipBasename) :
                  /\ wpc' = [wpc EXCEPT ![p] = "remove"]
                  /\ wfile' = [wfile EXCEPT ![p] = f]
                  /\ UNCHANGED <<wexc, wexit, sleep_time, wpane>>
            \/ /\ MatchingFiles(paneName[p], hipBasename) = {}
               /\ IF LoopContinues(wpane[p])
                  THEN /\ wpc' = [wpc EXCEPT ![p] = "sleep"]
                       /\ UNCHANGED wexit
                  ELSE /\ wpc' = [wpc EXCEPT ![p] = "kill"]
                       /\ wexit' = [wexit EXCEPT ![p] = "gone"]
               /\ UNCHANGED <<wfile, wexc, sleep_time, wpane>>
    /\ UNCHANGED <<fsVars, pane, paneName, dlgVars, wqueue, promptCount, yesCount,
                   cancelVars, closeCalls>>
    /\ UNCHANGED ticketVars

\* os.remove(_file); return True
Remove(p) ==
    /\ wpc[p] = "remove"
    /\ IF OsRemoveSucceeds(wfile[p])
       THEN /\ tmpFiles' = tmpFiles \ {wfile[p]}
            /\ wpc' = [wpc EXCEPT ![p] = "kill"]
            /\ wexit' = [wexit EXCEPT ![p] = "found"]
            /\ UNCHANGED <<wexc, sleep_time, wpane, wfile>>
       ELSE /\ ThreadEnds(p, "failed", "OSError")
            /\ UNCHANGED <<tmpFiles, wexit>>
    /\ UNCHANGED <<cwd, tempdir, hipBasename, openTmp, markerBy, pane, paneName,
                   dlgVars, wqueue, promptCount, yesCount, cancelVars, closeCalls>>
    /\ UNCHANGED ticketVars

\* One pass of the loop body up to the timeout test.
Tick(p) ==
    /\ wpc[p] = "sleep"
    /\ sleep_time' = [sleep_time EXCEPT ![p] = @ + DN_JIRA_SUBMIT_PANE_SLEEP_INC]
    /\ \E h \in FindPaneTab(paneName[p]) : wpane' = [wpane EXCEPT ![p] = h]
    /\ IF TimedOut(sleep_time'[p])
       THEN \* hou.ui.displayMessage(message, buttons=("Yes", "No")) blocks
            /\ wpc' = [wpc EXCEPT ![p] = "prompt"]
            /\ promptCount' = [promptCount EXCEPT ![p] = @ + 1]
       ELSE /\ wpc' = [wpc EXCEPT ![p] = "scan"]
            /\ UNCHANGED promptCount
    /\ UNCHANGED <<fsVars, pane, paneName, dlgVars, wqueue, wfile, wexit, wexc,
                   yesCount, cancelVars, closeCalls>>
    /\ UNCHANGED ticketVars

\* The user answers "Yes" (button 0).
AnswerYes(p) ==
    /\ wpc[p] = "prompt"
    /\ promptCount[p] < MaxPrompts
    /\ sleep_time' = [sleep_time EXCEPT ![p] = ResetSleepTime(@)]
    /\ \E h \in FindPaneTab(paneName[p]) : wpane' = [wpane EXCEPT ![p] = h]
    /\ wpc' = [wpc EXCEPT ![p] = "scan"]
    /\ yesCount' = [yesCount EXCEPT ![p] = @ + 1]
    /\ UNCHANGED <<fsVars, pane, paneName, dlgVars, wqueue, wfile, wexit, wexc,
                   promptCount, cancelVars, closeCalls>>
    /\ UNCHANGED ticketVars

\* Faulty variant: the answer No does not leave the loop.
AnswerNoContinues(p) ==
    /\ wpc[p] = "prompt"
    /\ promptCount[p] < MaxPrompts
    /\ wpc' = [wpc EXCEPT ![p] = "scan"]
    /\ UNCHANGED <<fsVars, pane, paneName, dlgVars, sleep_time, wpane, wqueue, wfile,
                   wexit, wexc, promptCount, yesCount, cancelVars, closeCalls>>
    /\ UNCHANGED ticketVars

\* The user answers "No": break.
AnswerNo(p) ==
    /\ wpc[p] = "prompt"
    /\ wpc' = [wpc EXCEPT ![p] = "kill"]
    /\ wexit' = [wexit EXCEPT ![p] = "declined"]
    /\ UNCHANGED <<fsVars, pane, paneName, dlgVars, sleep_time, wpane, wqueue, wfile,
                   wexc, promptCount, yesCount, cancelVars, closeCalls>>
    /\ UNCHANGED ticketVars

\* kill_pane_tab(queue, _pane_tab); hou.ui.setStatusMessage("")
Kill(p) ==
    /\ wpc[p] = "kill"
    /\ \E exc \in {"", "OperationFailed", "ObjectWasDeleted"} :
          /\ KillPaneTab("watcher", p, wqueue[p], wpane[p], wexit[p], exc)
          /\ ThreadEnds(p, IF exc = "" THEN "done" ELSE "failed", exc)
    /\ UNCHANGED <<fsVars, paneName, issue, wqueue, wexit, promptCount, yesCount,
                   cancelVars>>
    /\ UNCHANGED ticketVars

-----------------------------------------------------------------------------
(* HouJiraReportDialog.py *)

\* Faulty variant: a reject that closes the pane tab itself, in the UI thread.
RejectSync(p) ==
    /\ \E h \in FindPaneTab(paneName[p]) :
          /\ closeCalls' = closeCalls \cup
                {[thread |-> "ui", owner |-> p, pane |-> h, why |-> "reject"]}
          /\ pane' = [pane EXCEPT ![h] = "closed"]
          /\ dlg' = [q \in Panels |->
                        IF q = p THEN "rejected"
                        ELSE IF q = h /\ dlg[q] \in {"none", "open"} THEN "gone"
                        ELSE dlg[q]]
    /\ UNCHANGED cancelVars

\* HouJiraReportDialog.reject of a dialog in UI mode that has a pane tab.
Reject(p) ==
    /\ \E h \in FindPaneTab(paneName[p]) :
          \* threading.Thread(target=HipFileUtils.kill_pane_tab, args=(queue, _pane_tab))
          /\ cpc' = [cpc EXCEPT ![p] = "run"]
          /\ cpane' = [cpane EXCEPT ![p] = h]
    /\ dlg' = [dlg EXCEPT ![p] = "rejected"]
    /\ UNCHANGED <<pane, closeCalls>>

\* The user presses Cancel.
reject(p) ==
    /\ dlg[p] = "open"
    /\ Reject(p)
    /\ UNCHANGED <<fsVars, paneName, issue, watcherVars>>
    /\ UNCHANGED ticketVars

\* The thread reject started runs kill_pane_tab.
CancelRun(p) ==
    /\ cpc[p] = "run"
    /\ \E exc \in {"", "OperationFailed", "ObjectWasDeleted"} :
          /\ KillPaneTab("cancel", p, "Queue.Queue", cpane[p], "reject", exc)
          /\ cpc' = [cpc EXCEPT ![p] = IF exc = "" THEN "done" ELSE "failed"]
    \* the thread is over and its arguments with it
    /\ cpane' = [cpane EXCEPT ![p] = NoPane]
    /\ UNCHANGED <<fsVars, paneName, issue, watcherVars>>
    /\ UNCHANGED ticketVars

\* create_issue() in UI mode with a pane tab, once the connection and the create
\* call have returned `out`: close the dialog and create the message file.
CreateIssueDone(p, out) ==
    /\ issue' = [issue EXCEPT ![p] = out]
    /\ dlg' = [dlg EXCEPT ![p] = "submitted"]
    /\ \E x \in Prefixes :
          LET f == MarkerName(x, paneName[p], hipBasename)
          IN  /\ f \notin tmpFiles
              /\ tmpFiles' = tmpFiles \cup {f}
              \* the file object is bound to no name
              /\ openTmp' = openTmp \cup {f}
              /\ markerBy' = markerBy \cup {<<f, p>>}
    /\ tempdir' = "tmp"
    /\ UNCHANGED <<cwd, hipBasename, pane, cancelVars, closeCalls>>

\* Faulty variant: a create_issue that asks for the connection again when it
\* could not get it.
CreateIssueRetries(p, d, out) ==
    /\ out = "connect_fails"
    /\ jiraLog' = [jiraLog EXCEPT ![p] = <<"connect_failed", "connect_failed">>]
    /\ cexc' = [cexc EXCEPT ![p] = Raise("JIRAError", out)]
    /\ UNCHANGED <<fsVars, pane, dlgVars, cancelVars, closeCalls, createCalls>>

\* create_issue() on a ticket whose fields are d, meeting `out` at the backend
create_issue(p, d, out) ==
    /\ jiraLog' = [jiraLog EXCEPT ![p] =
                      CASE out = "connect_fails" -> <<"connect_failed">>
                        [] out = "create_fails" -> <<"connect", "create_failed">>
                        [] out = "None" -> <<"connect", "create">>
                        [] OTHER -> <<"connect", "create", "add_comment">>]
    /\ createCalls' = IF out = "connect_fails" THEN createCalls ELSE createCalls \cup {d}
    /\ IF out \in {"connect_fails", "create_fails"}
       THEN \* the exception leaves create_issue and _createTicket
            /\ cexc' = [cexc EXCEPT ![p] = Raise("JIRAError", out)]
            /\ UNCHANGED <<fsVars, pane, dlgVars, cancelVars, closeCalls>>
       ELSE /\ cexc' = [cexc EXCEPT ![p] = NoException]
            /\ IF is_ui
               THEN CreateIssueDone(p, out)
               ELSE \* no pane tab: nothing to clean up
                    /\ issue' = [issue EXCEPT ![p] = out]
                    /\ UNCHANGED <<fsVars, pane, dlg, cancelVars, closeCalls>>

\* HouJiraReportDialog._createTicket on a ticket whose fields are d; save: the
\* hip copy is asked for.
CreateTicket(p, d, save) ==
    LET msg == ValidationMessage(TitleText(d), d.comment)
    IN  IF msg # ""
        THEN /\ draft' = [draft EXCEPT ![p] = d]
             /\ jiraLog' = [jiraLog EXCEPT ![p] = <<>>]
             /\ transfer' = [transfer EXCEPT ![p] = "none"]
             /\ UNCHANGED <<fsVars, issue, createCalls>>
             /\ IF is_ui
                THEN \* hou.ui.displayMessage(message); self.reject()
                     /\ message' = [message EXCEPT ![p] = msg]
                     /\ cexc' = [cexc EXCEPT ![p] = NoException]
                     /\ Reject(p)
                ELSE /\ cexc' = [cexc EXCEPT ![p] = Raise("OperationFailed", msg)]
                     /\ UNCHANGED <<message, pane, dlg, cancelVars, closeCalls>>
        ELSE \E t \in HipCopyResults(save, env), out \in CreateOutcomes :
                LET \* "[{0}] {1}".format(self._ticket.reporter, self._ticket.title)
                    d2 == [d EXCEPT !.prefixes = @ + 1]
                IN  /\ draft' = [draft EXCEPT ![p] = d2]
                    /\ transfer' = [transfer EXCEPT ![p] = t[2]]
                    /\ UNCHANGED message
                    /\ IF t[1] # NoException
                       THEN \* the exception leaves transfer_hip and _createTicket
                            /\ cexc' = [cexc EXCEPT ![p] = t[1]]
                            /\ jiraLog' = [jiraLog EXCEPT ![p] = <<>>]
                            /\ UNCHANGED <<fsVars, pane, dlgVars, cancelVars, closeCalls,
                                           createCalls>>
                       ELSE create_issue(p, d2, out)

\* The user presses "Create Ticket": _updateTicket copies the widgets' texts to
\* the ticket.
createTicket(p) ==
    /\ is_ui
    /\ dlg[p] = "open"
    /\ \E title \in Titles, comment \in Comments, save \in BOOLEAN :
          CreateTicket(p, [title |-> title, comment |-> comment, prefixes |-> 0], save)
    /\ UNCHANGED <<paneName, watcherVars, is_ui, env, toolVars>>

\* In a python shell: HoudiniTicket(item=node, disable_ui=True) and
\* HouJiraReportDialog(**submitter.info_for_dialog)
NewShellDialog(p) ==
    /\ ~is_ui
    /\ dlg[p] = "none"
    /\ NewDialog(p)
    /\ UNCHANGED <<fsVars, pane, paneName, issue, watcherVars, cancelVars, closeCalls>>

\* dialog.set_title_and_comment(title=..., comment=...)
set_title_and_comment(p) ==
    /\ ~is_ui
    /\ dlg[p] = "open"
    /\ \E title \in Titles, comment \in Comments :
          draft' = [draft EXCEPT ![p] =
                       [title |-> IF title # "" THEN title ELSE @.title,
                        comment |-> IF comment # "" THEN comment ELSE @.comment,
                        prefixes |-> IF title # "" THEN 0 ELSE @.prefixes]]
    /\ UNCHANGED <<fsVars, pane, paneName, dlgVars, watcherVars, cancelVars, closeCalls,
                   is_ui, env, message, cexc, jiraLog, transfer, createCalls,
                   toolVars>>

\* dialog.create_ticket(save_hip=...)
create_ticket(p) ==
    /\ ~is_ui
    /\ dlg[p] = "open"
    /\ draft[p].prefixes < MaxSubmits
    /\ \E save \in BOOLEAN : CreateTicket(p, draft[p], save)
    /\ UNCHANGED <<paneName, watcherVars, is_ui, env, toolVars>>

\* The file object tempfile.NamedTemporaryFile(delete=True, ...) returned is
\* finalized: it closes and unlinks its file.
FinalizeTmpFile ==
    \E f \in openTmp :
        /\ openTmp' = openTmp \ {f}
        /\ tmpFiles' = tmpFiles \ {f}
        /\ UNCHANGED <<cwd, tempdir, hipBasename, markerBy, pane, paneName, dlgVars,
                       watcherVars, cancelVars, closeCalls>>
        /\ UNCHANGED ticketVars

-----------------------------------------------------------------------------
(* The user *)

UserClosesPane(p) ==
    /\ pane[p] = "open"
    /\ ClosePane(p)
    /\ UNCHANGED <<fsVars, paneName, issue, watcherVars, cancelVars, closeCalls>>
    /\ UNCHANGED ticketVars

-----------------------------------------------------------------------------
(* Specifications *)

WatcherStep(p) ==
    \/ Scan(p)
    \/ Remove(p)
    \/ Tick(p)
    \/ AnswerYes(p)
    \/ AnswerNo(p)
    \/ Kill(p)

PanelStep(p) ==
    \/ launch_jira_submit_panel(p)
    \/ create_interface(p)
    \/ createTicket(p)
    \/ reject(p)
    \/ CancelRun(p)
    \/ WatcherStep(p)
    \/ UserClosesPane(p)

ShellStep(p) ==
    \/ NewShellDialog(p)
    \/ set_title_and_comment(p)
    \/ create_ticket(p)

\* A session with one submission panel, or a python shell without a user
\* interface with one dialog object.
Next ==
    \/ PanelStep(1)
    \/ FinalizeTmpFile
    \/ ShellStep(1)

Spec == Init /\ [][Next]_vars

\* A session with two submission panels whose user leaves the panels and the
\* timeout prompts alone, and either cancels a dialog or submits a complete
\* draft without the hip copy, to a backend that answers.
OpenDialog(p) == create_interface(p) /\ dlg'[p] = "open"

SubmitComplete(p) == createTicket(p) /\ issue'[p] = "issue" /\ transfer'[p] = "none"

NextPanels ==
    \/ \E p \in Panels : launch_jira_submit_panel(p)
    \/ \E p \in Panels : OpenDialog(p)
    \/ \E p \in Panels : SubmitComplete(p)
    \/ \E p \in Panels : reject(p)
    \/ \E p \in Panels : CancelRun(p)
    \/ \E p \in Panels : Scan(p)
    \/ \E p \in Panels : Remove(p)
    \/ \E p \in Panels : Tick(p)
    \/ \E p \in Panels : Kill(p)
    \/ FinalizeTmpFile

\* The two panels are studied in the one environment in which a watcher can
\* remove a file at all: the working directory is the temporary directory.
InitPanels ==
    /\ Init
    /\ cwd = "tmp"
    /\ tempdir = "tmp"
    /\ hipBasename = <<"b">>
    /\ is_ui = TRUE
    /\ env = RequiredEnv

SpecPanels == InitPanels /\ [][NextPanels]_vars

\* A watcher started directly on a pane tab.
NextWatcher ==
    \/ WatcherStep(1)
    \/ UserClosesPane(1)

SpecWatcher == InitWatcher /\ [][NextWatcher]_vars

-----------------------------------------------------------------------------
(* HipFileUtils.save_hip, called by _createTicket for the hip copy *)

\* A session without panels.
Quiet ==
    /\ Idle
    /\ tmpFiles = {}
    /\ cwd = "tmp"
    /\ tempdir = "tmp"
    /\ hipBasename = <<"b">>
    /\ env = RequiredEnv
    /\ pane = [p \in Panels |-> "none"]
    /\ paneName = [p \in Panels |-> <<>>]
    /\ wpc = [p \in Panels |-> "idle"]
    /\ wpane = [p \in Panels |-> NoPane]
    /\ wqueue = [p \in Panels |-> "None"]

\* _createTicket is about to call save_hip(); hip.shot: SHOT is in os.environ.
InitSaveHip ==
    /\ Quiet
    /\ is_ui \in BOOLEAN
    /\ \E n \in HipNames, shot \in BOOLEAN :
          hip = [HipIdle EXCEPT !.pc = "validate", !.name = n, !.shot = shot]
    /\ shelf = ShelfIdle
    /\ ainfo = AutoInfoIdle
    /\ wscan = WatcherScanIdle

\* valid_path = validate_hip_path_or_force_save(hou.hipFile.path(), is_ui)
validate_hip_path_or_force_save ==
    /\ hip.pc = "validate"
    /\ IF ~hip.shot
       THEN \* os.environ["SHOT"]
            hip' = [hip EXCEPT !.pc = "raised", !.exc = "KeyError"]
       ELSE IF ~NeedsForceSave(hip.name, hip.name.base)
       THEN hip' = [hip EXCEPT !.pc = "makedirs", !.valid_path = hip.name]
       ELSE \E r \in ForceSaveResults(is_ui) :
               IF r.exc # ""
               THEN hip' = [hip EXCEPT !.pc = "raised", !.exc = r.exc]
               ELSE \* hou.hipFile.save(new_file) names the session new_file
                    hip' = [hip EXCEPT !.pc = "makedirs", !.valid_path = r.path,
                                       !.name = r.path]
    /\ UNCHANGED <<fsVars, pane, paneName, dlgVars, watcherVars, cancelVars,
                   closeCalls, is_ui, env, draft, message, cexc, jiraLog, transfer,
                   createCalls, shelf, ainfo, wscan>>

\* "if not os.path.exists(valid_dir): os.makedirs(valid_dir)"
MakeJiraDir ==
    /\ hip.pc = "makedirs"
    /\ \E ok \in BOOLEAN :
          hip' = IF ok
                 THEN [hip EXCEPT !.pc = "save", !.valid_dir = ValidDir(hip.valid_path)]
                 ELSE [hip EXCEPT !.pc = "raised", !.exc = "OSError",
                                  !.valid_dir = ValidDir(hip.valid_path)]
    /\ UNCHANGED <<fsVars, pane, paneName, dlgVars, watcherVars, cancelVars,
                   closeCalls, is_ui, env, draft, message, cexc, jiraLog, transfer,
                   createCalls, shelf, ainfo, wscan>>

\* The try block of save_hip: hou.hipFile.save(save_file_path) saves the session
\* under the new name, or raises hou.OperationFailed, having renamed the session
\* or not.
SaveRenamed ==
    /\ hip.pc = "save"
    /\ LET stamped == create_timestamped_hip_path(hip.valid_path, hip.name.base)
           \* os.path.join(os.sep, valid_dir, os.path.basename(save_file_path))
           save_file_path == [dir |-> hip.valid_dir, base |-> stamped.base]
       IN  \E ok \in BOOLEAN, renamed \in BOOLEAN :
              hip' = IF ok
                     THEN [hip EXCEPT !.pc = "finally", !.saved = "ok",
                                      !.save_file_path = save_file_path,
                                      !.name = save_file_path]
                     ELSE [hip EXCEPT !.pc = "finally", !.saved = "failed",
                                      !.save_file_path = save_file_path,
                                      !.success = FALSE,
                                      !.name = IF renamed THEN save_file_path ELSE @]
    /\ UNCHANGED <<fsVars, pane, paneName, dlgVars, watcherVars, cancelVars,
                   closeCalls, is_ui, env, draft, message, cexc, jiraLog, transfer,
                   createCalls, shelf, ainfo, wscan>>

\* The finally clause, and "return success, save_file_path".
SetNameBack ==
    /\ hip.pc = "finally"
    /\ hip' = [hip EXCEPT !.pc = "returned",
                          !.name = NameAfterSave(hip.valid_path, @)]
    /\ UNCHANGED <<fsVars, pane, paneName, dlgVars, watcherVars, cancelVars,
                   closeCalls, is_ui, env, draft, message, cexc, jiraLog, transfer,
                   createCalls, shelf, ainfo, wscan>>

\* _createTicket, back from save_hip: transfer_hip is called or not.
AfterSaveHip ==
    /\ hip.pc = "returned"
    /\ hip' = [hip EXCEPT !.pc = "done",
                          !.transfer = TransferWanted(hip.success, hip.save_file_path)]
    /\ UNCHANGED <<fsVars, pane, paneName, dlgVars, watcherVars, cancelVars,
                   closeCalls, is_ui, env, draft, message, cexc, jiraLog, transfer,
                   createCalls, shelf, ainfo, wscan>>

NextSaveHip ==
    \/ validate_hip_path_or_force_save
    \/ MakeJiraDir
    \/ SaveRenamed
    \/ SetNameBack
    \/ AfterSaveHip

SpecSaveHip == InitSaveHip /\ [][NextSaveHip]_vars

-----------------------------------------------------------------------------
(* Creator.tool_menu_handler and the shelf branch of create_interface *)

\* The user has right-clicked a shelf tool and Houdini calls tool_menu_handler.
InitShelf ==
    /\ Quiet
    /\ is_ui = TRUE
    /\ hip = HipIdle
    /\ ainfo = AutoInfoIdle
    /\ wscan = WatcherScanIdle
    /\ \E kw \in KwargsSet, fp \in ToolFilePaths :
          shelf = [ShelfIdle EXCEPT !.pc = "menu", !.kwargs = kw, !.filePath = fp]

tool_menu_handler ==
    /\ shelf.pc = "menu"
    /\ LET kwargs == shelf.kwargs IN
       IF "ownername" \notin DOMAIN kwargs \/ kwargs["ownername"] \notin ToolNames
       THEN \* check_shelf_tool_owner_name raises; hou.ui.displayMessage(str(e)); raise
            shelf' = [shelf EXCEPT !.pc = "raised", !.exc = "OperationFailed",
                                   !.message = TRUE]
       ELSE LET owner_name == kwargs["ownername"]
                owner_parent_name == OwnerParentName(kwargs)
            IN  IF owner_parent_name = <<"KeyError">>
                THEN shelf' = [shelf EXCEPT !.pc = "raised", !.exc = "KeyError"]
                ELSE IF Contains(shelf.filePath, <<".", "s", "h", "e", "l", "f">>)
                THEN \* createNode("null", node_name=tmp_node_name): the host adds
                     \* a digit when the name is taken
                     \E digit \in {<<>>, <<"1">>} :
                        shelf' = [shelf EXCEPT
                                     !.pc = "panel",
                                     !.node = ObjPath(TmpNodeName(owner_name,
                                                  owner_parent_name) \o digit)]
                ELSE IF ~Contains(shelf.filePath, <<"/", "t", "o", "o", "l", "s", "/">>)
                THEN \* createNode(owner_name, ...) needs a node type of that name
                     \E created \in BOOLEAN :
                        shelf' = IF created
                                 THEN [shelf EXCEPT !.pc = "panel",
                                          !.node = ObjPath(OtlNodeName(owner_name))]
                                 ELSE [shelf EXCEPT !.pc = "raised",
                                          !.exc = "OperationFailed", !.message = TRUE]
                ELSE \* raise hou.OperationFailed("Could not create node: ")
                     shelf' = [shelf EXCEPT !.pc = "raised", !.exc = "OperationFailed",
                                            !.message = TRUE]
    /\ UNCHANGED <<fsVars, pane, paneName, dlgVars, watcherVars, cancelVars,
                   closeCalls, is_ui, env, draft, message, cexc, jiraLog, transfer,
                   createCalls, hip, ainfo, wscan>>

\* create_interface with the temp node selected, up to the construction of
\* HoudiniTicket(item=..., item_parent=...).
CreateToolInterface ==
    /\ shelf.pc = "panel"
    /\ LET m == ShelfNameSearch(shelf.node) IN
       IF m = <<>>
       THEN \* HoudiniTicket(item=sel_nodes[0], pane_tab=pane_tab)
            shelf' = [shelf EXCEPT !.pc = "ticket",
                                   !.item = [kind |-> "node", name |-> shelf.node],
                                   !.item_parent = NoName]
       ELSE LET owner_name == m.node
                owner_parent_name ==
                    IF m.parent = <<"N", "O", "N", "E">> THEN NoName ELSE m.parent
            IN  IF owner_name \in ToolNames
                THEN shelf' = [shelf EXCEPT
                                  !.pc = "ticket",
                                  !.item = [kind |-> "tool", name |-> owner_name],
                                  !.item_parent =
                                      IF owner_parent_name \in ShelfNames
                                      THEN owner_parent_name ELSE NoName,
                                  \* sel_nodes[0].destroy()
                                  !.node = <<>>]
                ELSE \* "Something has gone wrong, please check the shell"
                     shelf' = [shelf EXCEPT !.pc = "failed", !.message = TRUE]
    /\ UNCHANGED <<fsVars, pane, paneName, dlgVars, watcherVars, cancelVars,
                   closeCalls, is_ui, env, draft, message, cexc, jiraLog, transfer,
                   createCalls, hip, ainfo, wscan>>

NextShelf ==
    \/ tool_menu_handler
    \/ CreateToolInterface

SpecShelf == InitShelf /\ [][NextShelf]_vars

-----------------------------------------------------------------------------
(* HoudiniTicket.__init__ from _check_item to _build_final_description *)

\* HoudiniTicket(item=...) has its connection and its watchers.
InitAutoInfo ==
    /\ Quiet
    /\ is_ui = TRUE
    /\ hip = HipIdle
    /\ shelf = ShelfIdle
    /\ wscan = WatcherScanIdle
    /\ \E item \in TicketItems, shot \in BOOLEAN, site \in BOOLEAN,
          app \in {"houdini", "hescape"}, bob \in BOOLEAN :
          ainfo = [AutoInfoIdle EXCEPT !.pc = "check", !.item = item, !.shot = shot,
                                       !.site = site, !.app = app, !.bob = bob,
                                       \* self._final_jira_description = ""
                                       !.description = <<"">>]

\* self._check_item(); self._get_auto_info()
get_auto_info ==
    /\ ainfo.pc = "check"
    /\ LET issue_type == CheckItem(ainfo.item) IN
       ainfo' = [ainfo EXCEPT
                    !.pc = "info",
                    !.issue_type = issue_type,
                    !.auto_info = GetAutoInfo(issue_type, ainfo.item, ainfo.shot,
                                              ainfo.site, ainfo.app, ainfo.bob)]
    /\ UNCHANGED <<fsVars, pane, paneName, dlgVars, watcherVars, cancelVars,
                   closeCalls, is_ui, env, draft, message, cexc, jiraLog, transfer,
                   createCalls, hip, shelf, wscan>>

\* self._build_final_description()
build_final_description ==
    /\ ainfo.pc = "info"
    /\ ainfo' = [ainfo EXCEPT
                    !.pc = "built",
                    !.description =
                        AppendValues(DescriptionHeader(@), ainfo.auto_info, 1)]
    /\ UNCHANGED <<fsVars, pane, paneName, dlgVars, watcherVars, cancelVars,
                   closeCalls, is_ui, env, draft, message, cexc, jiraLog, transfer,
                   createCalls, hip, shelf, wscan>>

NextAutoInfo ==
    \/ get_auto_info
    \/ build_final_description

SpecAutoInfo == InitAutoInfo /\ [][NextAutoInfo]_vars

-----------------------------------------------------------------------------
(* HoudiniTicket.__init__ up to the end of _search_for_watchers *)

\* self._all_issues_watchers holds the master login if it is an account, and
\* _search_for_watchers has read the lines of the watchers files it found.
InitWatcherScan ==
    /\ Quiet
    /\ is_ui = TRUE
    /\ hip = HipIdle
    /\ shelf = ShelfIdle
    /\ ainfo = AutoInfoIdle
    /\ \E lines \in SeqsUpTo(WatcherLines, MaxLines), site \in SiteNames,
          master \in BOOLEAN :
          wscan = [WatcherScanIdle EXCEPT
                      !.pc = "scan", !.lines = lines, !.site_name = site, !.idx = 1,
                      !.all_issues_watchers = IF master THEN <<MasterLogin>> ELSE <<>>]

\* One line of the file: the search, and for a match one pass of the for loop.
SearchWatcherLine ==
    /\ wscan.pc = "scan"
    /\ wscan.idx <= Len(wscan.lines)
    /\ LET x == WatcherLineSearch(wscan.lines[wscan.idx])
           \* x.group('login') + ',' + x.group('sites')
           joined == x.login \o <<",">> \o x.sites
           user == Split(joined, ",")[1]
           sites == Split(Split(joined, ",")[2], ":")
           watchers == wscan.all_issues_watchers
       IN  wscan' = [wscan EXCEPT
                        !.idx = @ + 1,
                        !.all_issues_watchers =
                            IF /\ x # <<>>
                               /\ SiteAllowed(sites, wscan.site_name)
                               \* pwd.getpwnam(user) raises KeyError otherwise
                               /\ user \in Accounts
                               /\ ~InList(user, watchers)
                            THEN Append(watchers, user)
                            ELSE watchers]
    /\ UNCHANGED <<fsVars, pane, paneName, dlgVars, watcherVars, cancelVars,
                   closeCalls, is_ui, env, draft, message, cexc, jiraLog, transfer,
                   createCalls, hip, shelf, ainfo>>

\* The files are read: "assert self._all_issues_watchers" of __init__.
WatchersFound ==
    /\ wscan.pc = "scan"
    /\ wscan.idx > Len(wscan.lines)
    /\ wscan' = IF wscan.all_issues_watchers = <<>>
                THEN [wscan EXCEPT !.pc = "raised", !.exc = "AssertionError"]
                ELSE [wscan EXCEPT !.pc = "done"]
    /\ UNCHANGED <<fsVars, pane, paneName, dlgVars, watcherVars, cancelVars,
                   closeCalls, is_ui, env, draft, message, cexc, jiraLog, transfer,
                   createCalls, hip, shelf, ainfo>>

NextWatcherScan ==
    \/ SearchWatcherLine
    \/ WatchersFound

SpecWatcherScan == InitWatcherScan /\ [][NextWatcherScan]_vars

-----------------------------------------------------------------------------
(* Claims C1..C10 *)

InLoop(p) == wpc[p] \in {"scan", "remove", "sleep"}

\* C1: once the dialog of panel p has created its marker, the next directory
\* scan of p's watcher finds the marker, the watcher leaves its poll loop, and it
\* then closes the panel.
C1_MarkerEndsWait ==
    [][\A p \in Panels :
          /\ (dlg[p] = "submitted" /\ wpc[p] = "scan" /\ wpc'[p] # "scan")
                => wpc'[p] = "remove"
          /\ (dlg[p] = "submitted" /\ wpc[p] = "remove" /\ wpc'[p] # "remove")
                => (wpc'[p] = "kill" /\ wexit'[p] = "found")
          /\ (dlg[p] = "submitted" /\ wpc[p] = "kill" /\ wexit[p] = "found"
                /\ wpc'[p] # "kill")
                => (wpc'[p] = "done" /\ pane'[p] = "closed")
      ]_vars

\* C2: when the temporary directory, which the watcher knows, holds a file whose
\* name ends with the watcher's suffix, the watcher's next scan detects such a
\* file, find_and_remove_tmp_file returns True, and the file is removed.
C2_ScanDetectsAndRemoves ==
    [][\A p \in Panels :
          /\ (wpc[p] = "scan" /\ tempdir # "None" /\ wpc'[p] # "scan"
                /\ MatchingFiles(paneName[p], hipBasename) # {})
                => (wpc'[p] = "remove"
                    /\ EndsWith(wfile'[p], TmpFileSuffix(paneName[p], hipBasename)))
          /\ (wpc[p] = "remove" /\ wpc'[p] # "remove")
                => (wpc'[p] = "kill" /\ wexit'[p] = "found"
                    /\ wfile[p] \notin tmpFiles')
      ]_vars

\* C3: the file a watcher configured with (P2, D2) detects is not a marker named
\* for another pair (P, D), that is, its name does not end with the suffix of
\* any other pair.
C3_OtherPairNotDetected ==
    \A p \in Panels :
        wpc[p] = "remove" =>
            \A n \in PaneNames, d \in DocNames :
                <<n, d>> # <<paneName[p], hipBasename>>
                    => ~EndsWith(wfile[p], TmpFileSuffix(n, d))

\* C4: with two panels open, the watcher of one panel never detects the marker
\* the other panel's dialog created.
C4_PanelsIndependent ==
    \A p \in Panels, q \in Panels :
        p # q =>
            ~(/\ wpc[p] = "remove"
              /\ <<wfile[p], q>> \in markerBy
              /\ <<wfile[p], p>> \notin markerBy)

\* C5: the watcher never waits beyond the ceiling without a prompt, the prompt
\* appears once, at the first poll whose accumulated time exceeds the ceiling,
\* and the answer Yes resets the accumulated time to zero, so that the next
\* prompt needs another full ceiling period.
C5_TimeoutPrompt ==
    /\ [](\A p \in Panels :
             /\ InLoop(p) => sleep_time[p] <= SleepMaxScaled
             /\ wpc[p] = "prompt" =>
                   /\ sleep_time[p] > SleepMaxScaled
                   /\ sleep_time[p] - DN_JIRA_SUBMIT_PANE_SLEEP_INC <= SleepMaxScaled)
    /\ [][\A p \in Panels :
             /\ (wpc[p] = "prompt" /\ wpc'[p] = "scan") => sleep_time'[p] = 0
             /\ promptCount'[p] # promptCount[p] =>
                   /\ promptCount'[p] = promptCount[p] + 1
                   /\ wpc[p] = "sleep" /\ wpc'[p] = "prompt"
                   /\ sleep_time[p] <= SleepMaxScaled
                   /\ sleep_time'[p] > SleepMaxScaled
         ]_vars

\* The prompt has appeared a second time, after a Yes and another full period,
\* with the panel still there.
C5_Witness ==
    \E p \in Panels :
        wpc[p] = "prompt" /\ promptCount[p] = 2 /\ wpane[p] # NoPane

\* C6: with no marker ever created, a poll that finds the panel gone while the
\* accumulated wait is not above the ceiling shows no prompt; the watcher leaves
\* the loop at the loop head, calls no close and exits.
C6_PanelGoneNoPrompt ==
    [][\A p \in Panels :
          /\ (wpc[p] = "sleep" /\ wpc'[p] # "sleep" /\ wpane'[p] = NoPane
                /\ sleep_time'[p] <= SleepMaxScaled)
                => (wpc'[p] = "scan" /\ promptCount'[p] = promptCount[p])
          /\ (wpc[p] = "scan" /\ wpane[p] = NoPane /\ markerBy = {}
                /\ wpc'[p] # "scan")
                => (wpc'[p] = "kill" /\ wexit'[p] = "gone")
          /\ (wpc[p] = "kill" /\ wexit[p] = "gone" /\ wpc'[p] # "kill")
                => (wpc'[p] = "done" /\ closeCalls' = closeCalls)
      ]_vars

\* The user closed the panel by hand; the watcher has exited without a prompt
\* and without a close call.
C6_Witness ==
    \E p \in Panels :
        /\ wpc[p] = "done" /\ wexit[p] = "gone"
        /\ promptCount[p] = 0 /\ markerBy = {}
        /\ pane[p] = "closed" /\ closeCalls = {}

\* C7: a watcher whose panel handle no longer resolves is at the loop head or
\* closing, never at the timeout prompt or asleep again; a watcher whose user
\* declined is closing or has exited.
C7_CancelGoesToClosing ==
    \A p \in Panels :
        /\ (wpane[p] = NoPane /\ wpc[p] \notin {"idle", "done", "failed"})
              => wpc[p] \in {"scan", "remove", "kill"}
        /\ wexit[p] = "declined" => wpc[p] \in {"kill", "done", "failed"}

\* C8 as stated: every close the watcher calls comes after it found the marker
\* or found the panel gone.
C8_CloseOnlyAfterMarkerOrGone ==
    \A c \in closeCalls :
        c.thread = "watcher" => c.why \in {"found", "gone"}

\* C8 as amended: every close the watcher calls is on a handle that resolved at
\* its last lookup, after it found the marker or after the user declined at the
\* timeout prompt; a watcher that found the panel gone calls no close.
C8_CloseOnlyAfterMarkerOrDeclined ==
    \A c \in closeCalls :
        c.thread = "watcher" => (c.why \in {"found", "declined"} /\ c.pane \in Panels)

\* The watcher has closed a panel after the user declined.
C8_Witness ==
    \E c \in closeCalls :
        c.thread = "watcher" /\ c.why = "declined" /\ pane[c.pane] = "closed"

\* C9: close is called in the watcher thread or in the thread reject spawns,
\* never in the UI thread; the step in which the dialog completes or is
\* cancelled leaves every pane as it is.
C9_NoCloseInDialogContext ==
    /\ [](\A c \in closeCalls : c.thread \in {"watcher", "cancel"})
    /\ [][\A p \in Panels :
             (dlg[p] = "open" /\ dlg'[p] \in {"rejected", "submitted"})
                => (pane' = pane /\ closeCalls' = closeCalls)
         ]_vars

\* The dialog was cancelled and the thread reject spawned has closed the panel.
C9_Witness ==
    \E c \in closeCalls :
        c.thread = "cancel" /\ dlg[c.owner] = "rejected" /\ pane[c.pane] = "closed"

\* C10: a watcher started with no queue never calls close and never returns
\* normally from the close step: kill_pane_tab raises hou.OperationFailed and
\* leaves every pane as it is.
C10_NoQueueNoClose ==
    /\ [](\A p \in Panels :
             wqueue[p] = "None" =>
                /\ wpc[p] # "done"
                /\ \A c \in closeCalls : ~(c.thread = "watcher" /\ c.owner = p))
    /\ [][\A p \in Panels :
             (wqueue[p] = "None" /\ wpc[p] = "kill" /\ wpc'[p] # "kill")
                => /\ wpc'[p] = "failed"
                   /\ wexc'[p] = "OperationFailed"
                   /\ pane' = pane
                   /\ closeCalls' = closeCalls
         ]_vars

\* A watcher without a queue left its loop with a live handle, was refused, and
\* the panel is still open.
C10_Witness ==
    \E p \in Panels :
        /\ wqueue[p] = "None" /\ wpc[p] = "failed" /\ wexc[p] = "OperationFailed"
        /\ wexit[p] \in {"found", "declined"}
        /\ pane[p] = "open"

-----------------------------------------------------------------------------
(* Claims C11..C20 *)

\* C11: a watcher whose scan stopped at a marker it then cannot delete (the file
\* is already gone, or os.remove refuses it) does not fail: it treats the marker
\* as seen, goes on to close the panel, and exits.
C11_UndeletableMarkerStillCloses ==
    [][\A p \in Panels :
          /\ (wpc[p] = "remove" /\ ~OsRemoveSucceeds(wfile[p]) /\ wpc'[p] # "remove")
                => (wpc'[p] = "kill" /\ wexit'[p] = "found" /\ wexc'[p] = "")
          /\ (wpc[p] = "kill" /\ wexit[p] = "found" /\ wpane[p] \in Panels
                /\ pane[wpane[p]] = "open" /\ wpc'[p] # "kill")
                => (wpc'[p] = "done" /\ pane'[wpane[p]] = "closed")
      ]_vars

\* C12: kill_pane_tab with a valid queue on a handle whose pane tab is already
\* closed does not raise and changes nothing.
C12_CloseIdempotent ==
    [][/\ \A p \in Panels :
             (wpc[p] = "kill" /\ QueueOk(wqueue[p]) /\ wpane[p] \in Panels
                /\ pane[wpane[p]] = "closed" /\ wpc'[p] # "kill")
                => (wpc'[p] = "done" /\ wexc'[p] = "" /\ pane' = pane /\ dlg' = dlg)
       /\ \A p \in Panels :
             (cpc[p] = "run" /\ cpane[p] \in Panels
                /\ pane[cpane[p]] = "closed" /\ cpc'[p] # "run")
                => (cpc'[p] = "done" /\ pane' = pane /\ dlg' = dlg)
      ]_vars

\* C13: a marker appears in the temporary directory only in the step in which a
\* dialog completes, and a marker leaves it only in the step in which a watcher
\* whose scan stopped at it removes it.
C13_MarkerStaysUntilWatcherDeletes ==
    [][/\ \A f \in tmpFiles' \ tmpFiles :
             \E p \in Panels :
                 /\ dlg[p] = "open" /\ dlg'[p] = "submitted"
                 /\ <<f, p>> \in markerBy'
       /\ \A f \in tmpFiles \ tmpFiles' :
             \E p \in Panels :
                 wpc[p] = "remove" /\ wfile[p] = f /\ wexit'[p] = "found"
      ]_vars

\* C14 as stated: over one lifecycle a watcher creates at most one timeout
\* prompt window.
C14_AtMostOnePrompt ==
    \A p \in Panels : promptCount[p] <= 1

\* C14 as amended: a watcher has at most one timeout prompt window open at a
\* time, and it creates a new one only after the user answered the previous one
\* with Yes: the prompts it has created are at most one more than the Yes
\* answers it has got, and exactly one more while a prompt is open.
C14_OnePromptPerYes ==
    /\ [](\A p \in Panels :
             /\ promptCount[p] <= yesCount[p] + 1
             /\ wpc[p] = "prompt" => promptCount[p] = yesCount[p] + 1
             /\ InLoop(p) => promptCount[p] = yesCount[p])
    /\ [][\A p \in Panels :
             promptCount'[p] # promptCount[p] =>
                (wpc[p] # "prompt" /\ promptCount'[p] = promptCount[p] + 1)
         ]_vars

\* A watcher has created its second prompt, after one Yes.
C14_Witness ==
    \E p \in Panels :
        wpc[p] = "prompt" /\ promptCount[p] = 2 /\ yesCount[p] = 1

\* C15: a submission of a draft whose title is empty ends in the validation
\* failure that names the summary, shown to the user in UI mode and raised to
\* the caller otherwise, and it asks nothing of the tracker: the dialog has no
\* issue and create was never called with an empty title.
C15_EmptyTitleFails ==
    \A p \in Panels :
        (draft[p].title = "" /\ draft[p].prefixes = 0) =>
            /\ is_ui => (message[p] = "Please enter a valid issue summary"
                         /\ cexc[p] = NoException)
            /\ ~is_ui => cexc[p] = Raise("OperationFailed",
                                         "Please enter a valid issue summary")
            /\ jiraLog[p] = <<>>
            /\ issue[p] = "None"
            /\ \A c \in createCalls : c.title # ""

\* A draft with an empty title and an empty description has been submitted.
C15_Witness ==
    \E p \in Panels :
        /\ draft[p] = [title |-> "", comment |-> "", prefixes |-> 0]
        /\ message[p] = "Please enter a valid issue summary"
        /\ issue[p] = "None"

\* C16: the step in which a dialog in UI mode shows a validation message leaves
\* the dialog open, its panel as it is, and starts no thread that closes it.
C16_ValidationLeavesDialogOpen ==
    [][\A p \in Panels :
          (is_ui /\ dlg[p] = "open" /\ message'[p] # message[p]) =>
             /\ message'[p] \in {"Please enter a valid issue summary",
                                 "Please enter a valid issue description"}
             /\ dlg'[p] = "open"
             /\ pane' = pane
             /\ cpc' = cpc
             /\ issue' = issue
      ]_vars

\* C17: every draft the ticketing client's create was called with has a title
\* and a description that are neither empty nor the placeholder.
C17_CreateOnlyValidDrafts ==
    \A c \in createCalls :
        /\ c.title \notin {"", DN_TICKET_TITLE_MESSAGE}
        /\ c.comment \notin {"", DN_TICKET_DESCRIPTION_MESSAGE}

\* In a python shell one dialog has been submitted twice.
C17_Witness ==
    /\ ~is_ui
    /\ \E c \in createCalls : c.prefixes = 2
    /\ \E p \in Panels : issue[p] = "issue"

\* C18: a submission in which a replication attempt failed raises no exception
\* of the replication step and goes on to the tracker.
C18_ReplicationFailureSwallowed ==
    \A p \in Panels :
        transfer[p] = "failed" =>
            /\ jiraLog[p] # <<>>
            /\ cexc[p] = NoException \/ cexc[p][1] = "JIRAError"

BackendFailed(log) ==
    \E i \in 1..Len(log) : log[i] \in {"connect_failed", "create_failed"}

\* C19: a call that finds the backend unreachable ends with an exception for its
\* caller after that one failed request, and the step creates no issue, no marker
\* and leaves the dialog as it is.
C19_BackendFailureSurfaces ==
    /\ [](\A p \in Panels :
             BackendFailed(jiraLog[p]) =>
                /\ cexc[p] # NoException
                /\ cexc[p][1] \in {"TicketCreatorException", "JIRAError"}
                /\ jiraLog[p] \in {<<"connect_failed">>, <<"connect", "create_failed">>})
    /\ [][\A p \in Panels :
             (BackendFailed(jiraLog'[p])
                /\ <<jiraLog'[p], cexc'[p], draft'[p], transfer'[p]>>
                      # <<jiraLog[p], cexc[p], draft[p], transfer[p]>>)
                => /\ issue' = issue
                   /\ dlg' = dlg
                   /\ tmpFiles' = tmpFiles
                   /\ markerBy' = markerBy
         ]_vars

\* In a python shell the connection failed at a submission made after an issue
\* had been created.
C19_Witness ==
    \E p \in Panels :
        /\ jiraLog[p] = <<"connect_failed">>
        /\ cexc[p][1] = "JIRAError"
        /\ dlg[p] = "open"
        /\ issue[p] = "issue"

\* C20: when a required environment variable is missing, the construction of
\* the ticket for a panel builds no dialog and the user gets a blocking message.
C20_MissingEnvReported ==
    \A p \in Panels :
        (is_ui /\ env # RequiredEnv /\ jiraLog[p] = <<"connect">>) =>
            (dlg[p] = "none" /\ message[p] # "")

-----------------------------------------------------------------------------
(* Claims C21..C30 *)

C24_DeclineClosesAndExits ==
    /\ [](\A p \in Panels :
             (wexit[p] = "declined" /\ wpc[p] = "done") => pane[p] = "closed")
    /\ [][\A p \in Panels :
             /\ (wpc[p] = "prompt" /\ wpc'[p] \notin {"prompt", "scan"}) =>
                    (wpc'[p] = "kill" /\ wexit'[p] = "declined")
             /\ wexit[p] = "declined" =>
                    /\ wpc'[p] \in {"kill", "done", "failed"}
                    /\ sleep_time'[p] <= sleep_time[p]
                    /\ promptCount'[p] = promptCount[p]
             /\ (/\ wexit[p] = "declined" /\ wpc[p] = "kill" /\ wpc'[p] # "kill"
                 /\ wpane[p] # NoPane /\ pane[wpane[p]] = "open") =>
                    /\ wpc'[p] = "done"
                    /\ pane'[wpane[p]] = "closed"
                    /\ [thread |-> "watcher", owner |-> p, pane |-> wpane[p],
                        why |-> "declined"] \in closeCalls' \ closeCalls
         ]_vars

\* The watcher has returned after a No, having closed a panel whose dialog never
\* created a marker.
C24_Witness ==
    \E p \in Panels :
        /\ wpc[p] = "done" /\ wexit[p] = "declined"
        /\ pane[p] = "closed" /\ markerBy = {}
        /\ \E c \in closeCalls :
              c.thread = "watcher" /\ c.owner = p /\ c.pane = p /\ c.why = "declined"

\* C25: a marker exists only for a dialog whose issue was created in the
\* tracker: every marker ever created was created by a dialog in UI mode whose
\* create call returned an issue.
C25_MarkerOnlyAfterIssue ==
    \A m \in markerBy : is_ui /\ issue[m[2]] = "issue"

\* C27: once the thread started by the reject of panel p's dialog has closed the
\* panel, the watcher's next pass of the loop body finds the panel gone and goes
\* to the loop condition without a prompt, the loop condition ends the loop, and
\* the watcher's kill_pane_tab closes nothing and the thread returns: the panel
\* stays closed and no watcher is left running for it.
C27_RejectEndsWatcher ==
    [][\A p \in Panels :
          (/\ dlg[p] = "rejected" /\ cpc[p] = "done" /\ pane[p] = "closed"
           /\ wpc'[p] # wpc[p]) =>
              /\ pane'[p] = "closed"
              /\ closeCalls' = closeCalls
              /\ wpc[p] = "sleep" => (wpc'[p] = "scan" /\ wpane'[p] = NoPane)
              /\ (wpc[p] = "scan" /\ wpane[p] = NoPane) => wpc'[p] \in {"kill", "failed"}
              /\ wpc[p] = "kill" => wpc'[p] = "done"
      ]_vars

\* C28: whatever the interleaving of the watcher thread and the thread started
\* by reject, the host's close is called at most once for one panel: no two
\* threads call it on the same handle, so none calls it on a handle another
\* thread has already closed.
C28_CloseAtMostOnce ==
    \A c1, c2 \in closeCalls : c1.pane = c2.pane => c1 = c2

\* C29: a submission attempt in a python shell that ends with the exception of
\* create_issue leaves the title of the ticket as it was before the attempt, and
\* every title sent to the tracker carries the "[reporter] " prefix exactly once.
C29_TitlePrefixedOnce ==
    /\ [](\A c \in createCalls : c.prefixes = 1)
    /\ [][\A p \in Panels :
             (~is_ui /\ cexc'[p] # NoException /\ cexc'[p][1] = "JIRAError") =>
                 draft'[p] = draft[p]
         ]_vars

\* C30: whenever save_hip is over, the session's document name is the validated
\* path: after the backup was saved, after the save failed with
\* hou.OperationFailed, in which case save_hip returns success False and
\* _createTicket does not call transfer_hip, and after os.makedirs raised.
C30_SaveHipRestoresName ==
    /\ (hip.pc \in {"returned", "done"} \/ (hip.pc = "raised" /\ hip.valid_path # NoPath)) =>
           hip.name = hip.valid_path
    /\ hip.pc \in {"returned", "done"} =>
           /\ hip.saved = "ok" => hip.success
           /\ hip.saved = "failed" => ~hip.success
    /\ (hip.pc = "done" /\ hip.saved = "failed") => ~hip.transfer

\* save_hip has returned after a failed save, in a session that force_save had
\* to save under a new name first, and no replication was asked for.
C30_Witness ==
    /\ hip.pc = "done" /\ hip.saved = "failed" /\ ~hip.success /\ ~hip.transfer
    /\ hip.name = hip.valid_path
    /\ hip.valid_path \notin HipNames
    /\ hip.save_file_path # NoPath

\* C26: the names a shelf event hands to tool_menu_handler come back from the
\* temp node unchanged: the ticket built for a tool of a shelf file gets the
\* tool named by kwargs["ownername"] as its item and the shelf named by
\* kwargs["ownerparentname"] as its item_parent.
C26_ShelfNamesRoundTrip ==
    (/\ shelf.pc = "ticket"
     /\ shelf.item.kind = "tool"
     /\ "ownerparentname" \in DOMAIN shelf.kwargs) =>
        /\ shelf.item.name = shelf.kwargs["ownername"]
        /\ shelf.item_parent = shelf.kwargs["ownerparentname"]

\* the pieces of the description that follow the empty user text: the header
HeaderLen == Len(DescriptionHeader(<<"">>))

\* The description d consists of the header and, after it, the non-empty values
\* of the fields `order` of info, in that order, and of nothing else.
RECURSIVE NonEmptyUpTo(_, _, _)
NonEmptyUpTo(info, order, i) ==
    IF i = 0 THEN 0
    ELSE NonEmptyUpTo(info, order, i - 1) + (IF info[order[i]] # "" THEN 1 ELSE 0)

SectionsInOrder(d, info, order) ==
    /\ SubSeq(d, 1, HeaderLen) = <<"", Dashes, "AUTO GENERATED INFO FOLLOWS", Dashes>>
    /\ Len(d) = HeaderLen + NonEmptyUpTo(info, order, Len(order))
    /\ \A i \in 1..Len(order) :
          info[order[i]] # "" =>
              d[HeaderLen + NonEmptyUpTo(info, order, i)] = info[order[i]]

\* C22: the description built for a ticket is the header followed by the
\* non-empty sections location, shot, submitted item, item type, item path,
\* working-file path, application version, environment tool listing and
\* remote-package listing, in this order.
C22_NineSections ==
    ainfo.pc = "built" =>
        SectionsInOrder(ainfo.description, ainfo.auto_info,
                        <<"location", "shot", "submitteditem", "opdefinitiontype",
                          "opdefinitionpath", "orighippath", "houdiniversion",
                          "curtools", "bobpaths">>)

\* C22, amended: the description built for a ticket is the header followed by
\* the non-empty sections location, shot, submitted item, item type, item path,
\* working-file path, application version, the opening code marker, the
\* HOUDINI_PATH listing, environment tool listing, remote-package listing and
\* the closing code marker, in this order; an empty section is left out.
C22_TwelveSections ==
    ainfo.pc = "built" =>
        SectionsInOrder(ainfo.description, ainfo.auto_info,
                        <<"location", "shot", "submitteditem", "opdefinitiontype",
                          "opdefinitionpath", "orighippath", "houdiniversion",
                          "codeline1", "houdinipath", "curtools", "bobpaths",
                          "codeline2">>)

\* A description is built for a tool of a shelf in a session whose packages
\* cannot be listed: the remote-package section is left out and the closing
\* marker follows the tool listing.
C22_Witness ==
    /\ ainfo.pc = "built"
    /\ ainfo.item = "shelf_tool"
    /\ ainfo.auto_info["bobpaths"] = ""
    /\ Len(ainfo.description) = HeaderLen + 11
    /\ ainfo.description[HeaderLen + 10] = get_curtools_info
    /\ ainfo.description[HeaderLen + 11] = "{code}"

\* the site column c names the site, or names no site at all
ColumnAllows(c, site_name) == c = <<>> \/ Contains(c, site_name)

====
